---- MODULE Spec2Model ----
(***************************************************************************)
(* Model of pydantic2ts/cli/script.py: the schema cleanup hook             *)
(* (clean_schema), model discovery (extract_pydantic_models), the removal  *)
(* of the _Master_ block from the generated file                           *)
(* (remove_master_model_from_output) and the pipeline of main.             *)
(***************************************************************************)
EXTENDS Integers, Sequences, FiniteSets, TLC

VARIABLES
    pc,          \* position of the running entry point
    schema,      \* the schema dict handed to clean_schema
    extra,       \* model.Config.extra of the model handed to clean_schema
    before,      \* the schema dict as it was before the first call
    once,        \* the schema dict after the first call
    members,     \* module graph: module -> set of member objects
    root,        \* the module passed to extract_pydantic_models / --module
    result,      \* what extract_pydantic_models returned
    outputFile,  \* the file at the --output path
    fileBefore,  \* the file at the --output path when the entry point was called
    outcome,     \* "" while running, "ok" on return, else the exception raised
    toolFound,   \* "found" or "missing" as shutil.which answered, "?" before the call
    imported,    \* whether importlib.import_module was called
    hooked,      \* the classes whose Config.schema_extra is clean_schema
    master,      \* the fields of the _Master_ model, in order
    schemaDir,   \* whether the temporary directory exists
    schemaFile,  \* the schema document written to schema.json
    dirsCreated, \* number of calls of mkdtemp
    genCalls,    \* number of calls of os.system
    genStatus    \* exit status of the last os.system call (-1 before)

vars == <<pc, schema, extra, before, once, members, root, result,
          outputFile, fileBefore, outcome, toolFound, imported, hooked,
          master, schemaDir, schemaFile, dirsCreated, genCalls, genStatus>>

----------------------------------------------------------------------------
(* Bounds of the model *)

MaxLines == 5
MaxEdges == 3
MaxMainEdges == 2

----------------------------------------------------------------------------
(* Python dicts as functions over a finite set of keys *)

EmptyDict == <<>>

HasKey(d, k) == k \in DOMAIN d

DictPop(d, k) == [x \in (DOMAIN d) \ {k} |-> d[x]]

DictSet(d, k, v) == [x \in (DOMAIN d) \cup {k} |-> IF x = k THEN v ELSE d[x]]

----------------------------------------------------------------------------
(* clean_schema *)

ExtraPolicies == {"allow", "ignore", "forbid"}

\* for prop in schema.get('properties', {}).values(): prop.pop('title', None)
StripTitles(s) ==
    IF HasKey(s, "properties")
    THEN DictSet(s, "properties",
                 [p \in DOMAIN s["properties"] |-> DictPop(s["properties"][p], "title")])
    ELSE s

\* faulty variant: the test on Config.extra is inverted
clean_schema_inverted(s, policy) ==
    IF policy = "allow"
    THEN DictSet(StripTitles(s), "additionalProperties", "false")
    ELSE StripTitles(s)

\* faulty variant: the flag is flipped from its previous value instead of being set
clean_schema_toggle(s, policy) ==
    IF policy # "allow"
    THEN DictSet(StripTitles(s), "additionalProperties",
                 IF HasKey(s, "additionalProperties") /\ s["additionalProperties"] = "false"
                 THEN "true" ELSE "false")
    ELSE StripTitles(s)

clean_schema(s, policy) ==
    IF policy # "allow"
    THEN DictSet(StripTitles(s), "additionalProperties", "false")
    ELSE StripTitles(s)

\* the property dicts, the properties mappings and the schema dicts drawn as inputs
PropDicts ==
    { [k \in K |-> IF k = "title" THEN "T" ELSE "string"] : K \in SUBSET {"title", "type"} }

PropertyMaps ==
    UNION { [N -> PropDicts] : N \in SUBSET {"a", "b"} }

SchemaValue(k, props, ap) ==
    CASE k = "title" -> "Model"
      [] k = "properties" -> props
      [] k = "additionalProperties" -> ap

Schemas ==
    { [k \in K |-> SchemaValue(k, props, ap)] :
        K \in SUBSET {"title", "properties", "additionalProperties"},
        props \in PropertyMaps,
        ap \in {"true", "false", "object"} }

----------------------------------------------------------------------------
(* Objects that can be members of a module.  __name__ is kept as the       *)
(* sequence of its characters so that str.startswith is a prefix test.     *)

Modules == {"p", "s", "d", "i", "q"}

Classes == {"A", "A2", "B", "BaseModel", "_P"}

Objects == Modules \cup Classes

\* obj.__name__ : the packages p, p.s, p.s.d, p._i and the unrelated package pq;
\* A and A2 are two distinct classes that are both named A
ObjName(o) ==
    CASE o = "p" -> <<"p">>
      [] o = "s" -> <<"p", ".", "s">>
      [] o = "d" -> <<"p", ".", "s", ".", "d">>
      [] o = "i" -> <<"p", ".", "_", "i">>
      [] o = "q" -> <<"p", "q">>
      [] o = "A" -> <<"A">>
      [] o = "A2" -> <<"A">>
      [] o = "B" -> <<"B">>
      [] o = "BaseModel" -> <<"B", "a", "s", "e", "M", "o", "d", "e", "l">>
      [] o = "_P" -> <<"_", "P">>

\* inspect.getmembers returns the members sorted by attribute name; every object
\* is bound under one attribute name, listed here in sorted (ASCII) order:
\* A, A2, B, BaseModel, _P, _i, d, p, pq, s
AttrOrder == <<"A", "A2", "B", "BaseModel", "_P", "i", "d", "p", "q", "s">>

StartsWith(str, prefix) ==
    /\ Len(prefix) <= Len(str)
    /\ SubSeq(str, 1, Len(prefix)) = prefix

\* not getattr(obj, '__name__', '').startswith('_')
not_private(o) == ~StartsWith(ObjName(o), <<"_">>)

\* faulty variant: any module member counts as a submodule, whatever its name
is_submodule_any(o, module_name) ==
    not_private(o) /\ o \in Modules

is_submodule(o, module_name) ==
    /\ not_private(o)
    /\ o \in Modules
    /\ StartsWith(ObjName(o), module_name \o <<".">>)

\* every class of the model but BaseModel itself is a subclass of BaseModel
is_pydantic_model(o) ==
    /\ not_private(o)
    /\ o \in Classes
    /\ o # "BaseModel"

\* inspect.getmembers(module, is_pydantic_model): the values, in attribute-name order
ModelMembers(mem, m) ==
    SelectSeq(AttrOrder, LAMBDA o : o \in mem[m] /\ is_pydantic_model(o))

\* inspect.getmembers(module, lambda obj: is_submodule(obj, module_name))
SubmoduleMembers(mem, m, module_name) ==
    SelectSeq(AttrOrder, LAMBDA o : o \in mem[m] /\ is_submodule(o, module_name))

\* the interpreter's recursion limit: a call nested deeper raises RecursionError
RecursionLimit == 8

RECURSIVE extract_pydantic_models(_, _, _)
RECURSIVE ExtendFromSubmodules(_, _, _, _, _)

\* for _, submodule in getmembers(...): models.extend(extract_pydantic_models(submodule))
\* acc is [err, models, depth, calls]: depth is the deepest call made so far and
\* calls the pairs <<module, submodule>> of the recursive calls made so far
ExtendFromSubmodules(mem, module, subs, depth, acc) ==
    IF subs = <<>> \/ acc.err
    THEN acc
    ELSE LET r == extract_pydantic_models(mem, Head(subs), depth + 1)
         IN  ExtendFromSubmodules(mem, module, Tail(subs), depth,
                 [err    |-> r.err,
                  models |-> acc.models \o r.models,
                  depth  |-> IF r.depth > acc.depth THEN r.depth ELSE acc.depth,
                  calls  |-> acc.calls \cup r.calls \cup {<<module, Head(subs)>>}])

extract_pydantic_models(mem, module, depth) ==
    IF depth > RecursionLimit
    THEN [err |-> TRUE, models |-> <<>>, depth |-> depth, calls |-> {}]
    ELSE LET module_name == ObjName(module)
             models == ModelMembers(mem, module)
             subs   == SubmoduleMembers(mem, module, module_name)
         IN  ExtendFromSubmodules(mem, module, subs, depth,
                 [err |-> FALSE, models |-> models, depth |-> depth, calls |-> {}])

\* the module graphs drawn as inputs: at most MaxEdges memberships in all.
\* The candidate memberships are numbered and a graph is drawn as an increasing
\* sequence of these numbers.
ModuleOrder == <<"p", "s", "d", "i", "q">>

NumCandidates == Len(ModuleOrder) * Len(AttrOrder)

CandidateEdge(e) ==
    <<ModuleOrder[((e - 1) \div Len(AttrOrder)) + 1], AttrOrder[((e - 1) % Len(AttrOrder)) + 1]>>

\* a choice of at most k memberships: k candidate numbers, increasing, the unused
\* places (0) last
EdgeChoice(f, k) ==
    \A j \in 2..k : f[j] = 0 \/ (f[j - 1] # 0 /\ f[j - 1] < f[j])

GraphOf(f, k) ==
    LET E == { CandidateEdge(f[j]) : j \in { x \in 1..k : f[x] # 0 } }
    IN  [m \in Modules |-> { o \in Objects : <<m, o>> \in E }]

\* members is drawn among the graphs of at most k memberships
DrawGraph(mem, k) ==
    \E f \in [1..k -> 0..NumCandidates] : EdgeChoice(f, k) /\ mem = GraphOf(f, k)

----------------------------------------------------------------------------
(* remove_master_model_from_output.  A file is [exists, lines]; a line is  *)
(* the sequence of the pieces of its text followed by its terminator       *)
(* characters, as readlines() returns it.                                  *)

None == 0

NoFile == [exists |-> FALSE, lines |-> <<>>]

TextFile(lines) == [exists |-> TRUE, lines |-> lines]

\* 'export interface <name> {' for a name given as its pieces
InterfaceOpen(name) == <<"export interface ">> \o name \o <<" {">>

MasterName == <<"_Master_">>
MasterOpen == InterfaceOpen(MasterName)
CloseBrace == <<"}">>

RECURSIVE rstrip(_)
\* line.rstrip('\r\n'): drop every trailing carriage return and line feed
rstrip(line) ==
    IF line # <<>> /\ line[Len(line)] \in {"\r", "\n"}
    THEN rstrip(SubSeq(line, 1, Len(line) - 1))
    ELSE line

RECURSIVE FindBlock(_, _, _)
\* the loop over enumerate(lines) of remove_master_model_from_output, from index i
\* on with the value start has so far; indices are 1-based and None is 0
FindBlock(lines, i, start) ==
    IF i > Len(lines)
    THEN [start |-> start, end |-> None]
    ELSE IF rstrip(lines[i]) = MasterOpen
    THEN FindBlock(lines, i + 1, i)
    ELSE IF start # None /\ rstrip(lines[i]) = CloseBrace
    THEN [start |-> start, end |-> i]
    ELSE FindBlock(lines, i + 1, start)

\* lines[:start] + lines[(end + 1):]
SliceOut(lines, start, end) ==
    SubSeq(lines, 1, start - 1) \o SubSeq(lines, end + 1, Len(lines))

\* faulty variant: a missing end is taken as "nothing to cut after start" and the file
\* is rewritten with what is left
RemoveMasterLenient(file) ==
    IF ~file.exists
    THEN [error |-> "FileNotFoundError", file |-> file]
    ELSE LET b == FindBlock(file.lines, 1, None)
         IN  IF b.end = None
             THEN [error |-> "", file |-> TextFile(SubSeq(file.lines, 1, b.start - 1))]
             ELSE [error |-> "", file |-> TextFile(SliceOut(file.lines, b.start, b.end))]

\* the whole function: what it raises ("" when it returns) and the file it leaves.
\* open(output, 'r') raises when the file is absent; end + 1 raises TypeError when
\* end is None, before the file is opened for writing
RemoveMaster(file) ==
    IF ~file.exists
    THEN [error |-> "FileNotFoundError", file |-> file]
    ELSE LET b == FindBlock(file.lines, 1, None)
         IN  IF b.end = None
             THEN [error |-> "TypeError", file |-> file]
             ELSE [error |-> "", file |-> TextFile(SliceOut(file.lines, b.start, b.end))]

\* the generated files drawn as inputs: every line ends with a line feed,
\* the last one possibly not
LineBodies ==
    {MasterOpen, CloseBrace, InterfaceOpen(<<"A">>), <<"  ", "A", ": ", "A", ";">>, <<"  }">>}

\* outputFile is drawn among the files of at most MaxLines lines
DrawFile(file) ==
    \E n \in 0..MaxLines : \E bodies \in [1..n -> LineBodies], lastTerminated \in BOOLEAN :
        file = TextFile([j \in 1..n |->
                  IF j < n \/ lastTerminated THEN bodies[j] \o <<"\n">> ELSE bodies[j]])

----------------------------------------------------------------------------
(* Schema synthesis and the external generator, as main drives them *)

\* m.Config.extra of the classes of the model (pydantic's default is ignore)
ClassExtra(o) ==
    CASE o = "A" -> "ignore"
      [] o = "A2" -> "allow"
      [] o = "B" -> "allow"
      [] o = "_P" -> "forbid"
      [] OTHER -> "ignore"

\* the schema pydantic renders for a class before Config.schema_extra is applied
RawSchema(o) ==
    [title      |-> "Model",
     properties |-> [a |-> [title |-> "T", type |-> "string"]]]

\* Config.schema_extra is applied by schema_json only where it was installed
SchemaOf(o, installed) ==
    IF o \in installed THEN clean_schema(RawSchema(o), ClassExtra(o)) ELSE RawSchema(o)

RECURSIVE IndexOfName(_, _, _)
IndexOfName(fields, name, j) ==
    IF j > Len(fields) THEN 0
    ELSE IF fields[j].name = name THEN j
    ELSE IndexOfName(fields, name, j + 1)

RECURSIVE FieldsDict(_, _)
\* {m.__name__: (m, ...) for m in models}: a later model of the same name replaces
\* the value of the key, which keeps its place
FieldsDict(models, acc) ==
    IF models = <<>> THEN acc
    ELSE LET m == Head(models)
             j == IndexOfName(acc, ObjName(m), 1)
             f == [name |-> ObjName(m), model |-> m]
         IN  FieldsDict(Tail(models),
                        IF j = 0 THEN Append(acc, f) ELSE [acc EXCEPT ![j] = f])

\* master_model.schema_json(): the container's own schema and one definition per field
SchemaDocument(fields, installed) ==
    [master      |-> clean_schema(
                        [title      |-> "_Master_",
                         properties |-> [j \in 1..Len(fields) |-> [ref |-> fields[j].name]]],
                        "ignore"),
     definitions |-> [j \in 1..Len(fields) |->
                        [name |-> fields[j].name,
                         schema |-> SchemaOf(fields[j].model, installed)]]]

NoDocument == [master |-> EmptyDict, definitions |-> <<>>]

BannerComment ==
    << <<"/* tslint:disable */", "\n">>,
       <<"/**", "\n">>,
       <<"/* This file was automatically generated from pydantic models by running pydantic2ts.", "\n">>,
       <<"/* Do not modify it by hand - just update the pydantic models and then re-run the script", "\n">>,
       <<"*/", "\n">> >>

FieldLine(name) == <<"  ">> \o name \o <<": ">> \o name \o <<";", "\n">>

RECURSIVE FieldLines(_)
FieldLines(defs) ==
    IF defs = <<>> THEN <<>>
    ELSE <<FieldLine(Head(defs).name)>> \o FieldLines(Tail(defs))

\* the interface block the generator emits for one schema definition
DefinitionBlock(d) ==
    << InterfaceOpen(d.name) \o <<"\n">>, <<"  a: string;", "\n">> >>
    \o (IF HasKey(d.schema, "additionalProperties") /\ d.schema["additionalProperties"] = "false"
        THEN <<>> ELSE << <<"  [k: string]: unknown;", "\n">> >>)
    \o << CloseBrace \o <<"\n">> >>

RECURSIVE DefinitionBlocks(_)
DefinitionBlocks(defs) ==
    IF defs = <<>> THEN <<>>
    ELSE DefinitionBlock(Head(defs)) \o DefinitionBlocks(Tail(defs))

\* what a successful run of the generator writes to the output path: the banner,
\* the block of the document's root and one block per definition
GeneratedFile(doc) ==
    TextFile(BannerComment
             \o << MasterOpen \o <<"\n">> >>
             \o FieldLines(doc.definitions)
             \o << CloseBrace \o <<"\n">> >>
             \o DefinitionBlocks(doc.definitions))

\* a file as an earlier successful run of the generator left it, and the same
\* file after remove_master_model_from_output
LeftoverRaw == GeneratedFile(SchemaDocument(FieldsDict(<<"A">>, <<>>), {"A"}))
LeftoverClean == RemoveMaster(LeftoverRaw).file

----------------------------------------------------------------------------
(* State *)

NoResult == [err |-> FALSE, models |-> <<>>, depth |-> 0, calls |-> {}]

IdleClean ==
    /\ schema = EmptyDict /\ extra = "ignore" /\ before = EmptyDict /\ once = EmptyDict

IdleDiscover ==
    /\ members = [m \in Modules |-> {}] /\ root = "p" /\ result = NoResult

IdleFile ==
    /\ outputFile = NoFile /\ fileBefore = NoFile

IdleMain ==
    /\ toolFound = "?" /\ imported = FALSE /\ hooked = {} /\ master = <<>>
    /\ schemaDir = FALSE /\ schemaFile = NoDocument
    /\ dirsCreated = 0 /\ genCalls = 0 /\ genStatus = -1

cleanVars == <<schema, extra, before, once>>
discoverVars == <<members, root, result>>
fileVars == <<outputFile, fileBefore>>
mainVars == <<toolFound, imported, hooked, master, schemaDir, schemaFile,
              dirsCreated, genCalls, genStatus>>

----------------------------------------------------------------------------
(* clean_schema called on a schema dict, and called again on the result *)

InitClean ==
    /\ pc = "clean"
    /\ outcome = ""
    /\ schema \in Schemas
    /\ extra \in ExtraPolicies
    /\ before = schema
    /\ once = schema
    /\ IdleDiscover /\ IdleFile /\ IdleMain

CleanSchema ==
    /\ pc \in {"clean", "cleaned"}
    /\ schema' = clean_schema(schema, extra)
    /\ once' = IF pc = "clean" THEN schema' ELSE once
    /\ pc' = IF pc = "clean" THEN "cleaned" ELSE "cleaned twice"
    /\ UNCHANGED <<extra, before, outcome, discoverVars, fileVars, mainVars>>

NextClean == CleanSchema

SpecClean == InitClean /\ [][NextClean]_vars

----------------------------------------------------------------------------
(* extract_pydantic_models called on a module of a module graph *)

InitDiscover ==
    /\ pc = "discover"
    /\ outcome = ""
    /\ DrawGraph(members, MaxEdges)
    /\ root \in Modules
    /\ result = NoResult
    /\ IdleClean /\ IdleFile /\ IdleMain

Discover ==
    /\ pc = "discover"
    /\ result' = extract_pydantic_models(members, root, 1)
    /\ outcome' = IF result'.err THEN "RecursionError" ELSE "ok"
    /\ pc' = "discovered"
    /\ UNCHANGED <<members, root, cleanVars, fileVars, mainVars>>

NextDiscover == Discover

SpecDiscover == InitDiscover /\ [][NextDiscover]_vars

----------------------------------------------------------------------------
(* remove_master_model_from_output called on a generated file *)

InitRemove ==
    /\ pc = "remove"
    /\ outcome = ""
    /\ (outputFile = NoFile \/ DrawFile(outputFile))
    /\ fileBefore = outputFile
    /\ IdleClean /\ IdleDiscover /\ IdleMain

RemoveMasterModelFromOutput ==
    /\ pc = "remove"
    /\ LET r == RemoveMaster(outputFile)
       IN  /\ outputFile' = r.file
           /\ outcome' = IF r.error = "" THEN "ok" ELSE r.error
    /\ pc' = "removed"
    /\ UNCHANGED <<fileBefore, cleanVars, discoverVars, mainVars>>

NextRemove == RemoveMasterModelFromOutput

SpecRemove == InitRemove /\ [][NextRemove]_vars

----------------------------------------------------------------------------
(* main: one action per statement of the pipeline *)

InitMain ==
    /\ pc = "which"
    /\ outcome = ""
    /\ DrawGraph(members, MaxMainEdges)
    /\ root \in {"p", "s"}
    /\ result = NoResult
    /\ outputFile \in {NoFile, LeftoverRaw, LeftoverClean}
    /\ fileBefore = outputFile
    /\ IdleClean /\ IdleMain

\* faulty variant: the check of shutil.which is dropped and the pipeline always starts
CheckToolUnchecked ==
    /\ pc = "which"
    /\ \E found \in BOOLEAN : toolFound' = IF found THEN "found" ELSE "missing"
    /\ pc' = "import"
    /\ UNCHANGED <<outcome, cleanVars, discoverVars, fileVars, imported, hooked, master,
                   schemaDir, schemaFile, dirsCreated, genCalls, genStatus>>

\* if not shutil.which(json2ts_cmd): raise Exception(...)
CheckTool ==
    /\ pc = "which"
    /\ \E found \in BOOLEAN :
          /\ toolFound' = IF found THEN "found" ELSE "missing"
          /\ IF found
             THEN pc' = "import" /\ outcome' = outcome
             ELSE pc' = "done" /\ outcome' = "Exception"
    /\ UNCHANGED <<cleanVars, discoverVars, fileVars, imported, hooked, master,
                   schemaDir, schemaFile, dirsCreated, genCalls, genStatus>>

\* models = extract_pydantic_models(importlib.import_module(module))
ImportAndExtract ==
    /\ pc = "import"
    /\ imported' = TRUE
    /\ \E importable \in BOOLEAN :
          IF ~importable
          THEN pc' = "done" /\ outcome' = "ImportError" /\ result' = result
          ELSE LET r == extract_pydantic_models(members, root, 1)
               IN  /\ result' = r
                   /\ IF r.err
                      THEN pc' = "done" /\ outcome' = "RecursionError"
                      ELSE pc' = "hooks" /\ outcome' = outcome
    /\ UNCHANGED <<members, root, cleanVars, fileVars, toolFound, hooked, master,
                   schemaDir, schemaFile, dirsCreated, genCalls, genStatus>>

\* for m in models: m.Config.schema_extra = staticmethod(clean_schema)
InstallHooks ==
    /\ pc = "hooks"
    /\ hooked' = hooked \cup { result.models[j] : j \in 1..Len(result.models) }
    /\ pc' = "create"
    /\ UNCHANGED <<outcome, cleanVars, discoverVars, fileVars, toolFound, imported, master,
                   schemaDir, schemaFile, dirsCreated, genCalls, genStatus>>

\* master_model = create_model('_Master_', **{m.__name__: (m, ...) for m in models})
CreateMaster ==
    /\ pc = "create"
    /\ master' = FieldsDict(result.models, <<>>)
    /\ pc' = "mkdtemp"
    /\ UNCHANGED <<outcome, cleanVars, discoverVars, fileVars, toolFound, imported, hooked,
                   schemaDir, schemaFile, dirsCreated, genCalls, genStatus>>

\* schema_dir = mkdtemp()
MakeSchemaDir ==
    /\ pc = "mkdtemp"
    /\ schemaDir' = TRUE
    /\ dirsCreated' = dirsCreated + 1
    /\ pc' = "write"
    /\ UNCHANGED <<outcome, cleanVars, discoverVars, fileVars, toolFound, imported, hooked,
                   master, schemaFile, genCalls, genStatus>>

\* f.write(master_model.schema_json(indent=2))
WriteSchema ==
    /\ pc = "write"
    /\ schemaFile' = SchemaDocument(master, hooked)
    /\ pc' = "system"
    /\ UNCHANGED <<outcome, cleanVars, discoverVars, fileVars, toolFound, imported, hooked,
                   master, schemaDir, dirsCreated, genCalls, genStatus>>

\* os.system(f'{json2ts_cmd} -i ... -o {output} ...'): the exit status is returned
\* and dropped; a generator that fails leaves the output path as it was
RunGenerator ==
    /\ pc = "system"
    /\ genCalls' = genCalls + 1
    /\ \E status \in {0, 1} :
          /\ genStatus' = status
          /\ outputFile' = IF status = 0 THEN GeneratedFile(schemaFile) ELSE outputFile
    /\ pc' = "rmtree"
    /\ UNCHANGED <<outcome, cleanVars, discoverVars, fileBefore, toolFound, imported, hooked,
                   master, schemaDir, schemaFile, dirsCreated>>

\* shutil.rmtree(schema_dir)
RemoveSchemaDir ==
    /\ pc = "rmtree"
    /\ schemaDir' = FALSE
    /\ schemaFile' = NoDocument
    /\ pc' = "strip"
    /\ UNCHANGED <<outcome, cleanVars, discoverVars, fileVars, toolFound, imported, hooked,
                   master, dirsCreated, genCalls, genStatus>>

\* remove_master_model_from_output(output)
StripMaster ==
    /\ pc = "strip"
    /\ LET r == RemoveMaster(outputFile)
       IN  /\ outputFile' = r.file
           /\ outcome' = IF r.error = "" THEN "ok" ELSE r.error
    /\ pc' = "done"
    /\ UNCHANGED <<fileBefore, cleanVars, discoverVars, toolFound, imported, hooked,
                   master, schemaDir, schemaFile, dirsCreated, genCalls, genStatus>>

Next ==
    \/ CheckTool
    \/ ImportAndExtract
    \/ InstallHooks
    \/ CreateMaster
    \/ MakeSchemaDir
    \/ WriteSchema
    \/ RunGenerator
    \/ RemoveSchemaDir
    \/ StripMaster

Init == InitMain

Spec == Init /\ [][Next]_vars

----------------------------------------------------------------------------
(* Properties of clean_schema *)

AP == "additionalProperties"

\* C7: after clean_schema(schema, model), with the policy allow the key
\* additionalProperties is as it was before the call (absent stays absent, a value
\* is kept), and with any other policy it is present and equal to false.
C7_ExtraPolicy ==
    pc = "cleaned" =>
        IF extra = "allow"
        THEN /\ HasKey(schema, AP) <=> HasKey(before, AP)
             /\ HasKey(before, AP) => schema[AP] = before[AP]
        ELSE HasKey(schema, AP) /\ schema[AP] = "false"

\* a call with the policy allow on a schema that carries a value other than false
C7_Witness ==
    /\ pc = "cleaned"
    /\ extra = "allow"
    /\ HasKey(before, AP) /\ before[AP] = "object"
    /\ HasKey(before, "properties")

\* C8: clean_schema is idempotent: the schema after the second call with the same
\* model equals the schema after the first call.
C8_Idempotent ==
    pc = "cleaned twice" => schema = once

\* two calls, the first of which removed a title and overrode the flag
C8_Witness ==
    /\ pc = "cleaned twice"
    /\ extra = "forbid"
    /\ HasKey(before, AP) /\ before[AP] = "true"
    /\ HasKey(before, "properties")
    /\ \E n \in DOMAIN before["properties"] : HasKey(before["properties"][n], "title")
    /\ once # before

----------------------------------------------------------------------------
(* Properties of remove_master_model_from_output *)

\* a line without its line terminator
Body(line) ==
    IF line # <<>> /\ line[Len(line)] = "\n" THEN SubSeq(line, 1, Len(line) - 1) ELSE line

\* index of the first line from index from on whose body is b, None if there is none
FirstLine(lines, from, b) ==
    IF \E j \in from..Len(lines) : Body(lines[j]) = b
    THEN CHOOSE j \in from..Len(lines) :
            /\ Body(lines[j]) = b
            /\ \A k \in from..(j - 1) : Body(lines[k]) # b
    ELSE None

\* the file holds a complete container block: an opening line and a later '}'
ContainsBlock(lines) ==
    \E s \in 1..Len(lines), e \in 1..Len(lines) :
        s < e /\ Body(lines[s]) = MasterOpen /\ Body(lines[e]) = CloseBrace

\* C1: for a file that contains a container block, the file is rewritten to the
\* lines before start followed by the lines after end, where start is the index of
\* the FIRST line equal to 'export interface _Master_ {' and end the index of the
\* first line after start equal to '}'.
C1_CutsFromFirstOpening ==
    (pc = "removed" /\ fileBefore.exists /\ ContainsBlock(fileBefore.lines)) =>
        LET lines == fileBefore.lines
            start == FirstLine(lines, 1, MasterOpen)
            end   == FirstLine(lines, start + 1, CloseBrace)
        IN  /\ outcome = "ok"
            /\ outputFile = TextFile(SliceOut(lines, start, end))

\* C9: when the file holds no complete container block the function ends in an
\* error and the file is left exactly as it was.
C9_NoBlockFailsUntouched ==
    (pc = "removed" /\ fileBefore.exists /\ ~ContainsBlock(fileBefore.lines)) =>
        /\ outcome \notin {"", "ok"}
        /\ outputFile = fileBefore

\* a file with an opening line that is never closed, and other content around it
C9_Witness ==
    /\ pc = "removed"
    /\ fileBefore.exists
    /\ ~ContainsBlock(fileBefore.lines)
    /\ Len(fileBefore.lines) >= 3
    /\ Body(fileBefore.lines[2]) = MasterOpen
    /\ Body(fileBefore.lines[1]) = CloseBrace

----------------------------------------------------------------------------
(* Properties of extract_pydantic_models *)

\* index of the last '.' of a name, 0 if it has none
LastDot(name) ==
    IF \E j \in 1..Len(name) : name[j] = "."
    THEN CHOOSE j \in 1..Len(name) : name[j] = "." /\ \A k \in (j + 1)..Len(name) : name[k] # "."
    ELSE 0

\* the object's own name component starts with an underscore
OwnNamePrivate(o) ==
    LET name == ObjName(o) IN name[LastDot(name) + 1] = "_"

\* a member into which discovery is to descend: a module, not private, whose
\* qualified name is prefixed by '<module_name>.'
QualifyingSubmodule(o, m) ==
    /\ o \in Modules
    /\ ~OwnNamePrivate(o)
    /\ StartsWith(ObjName(o), ObjName(m) \o <<".">>)

RECURSIVE QualifyingClosure(_, _)
QualifyingClosure(mem, R) ==
    LET next == R \cup { o \in Objects : \E m \in R : o \in mem[m] /\ QualifyingSubmodule(o, m) }
    IN  IF next = R THEN R ELSE QualifyingClosure(mem, next)

\* the Model classes reachable from r by membership in r or in nested
\* qualifying submodules
ReachableModels(mem, r) ==
    { c \in Classes \ {"BaseModel"} :
        /\ ~OwnNamePrivate(c)
        /\ \E m \in QualifyingClosure(mem, {r}) : c \in mem[m] }

Occurrences(seq, x) == Cardinality({ j \in 1..Len(seq) : seq[j] = x })

\* C2: the returned list contains each reachable Model class exactly once,
\* however many modules expose it and however many paths reach its module.
\* Stated for the graphs in which the private submodule is nobody's member, so
\* that the descent into private submodules (C3) plays no part in it.
C2_EachModelOnce ==
    (pc = "discovered" /\ \A m \in Modules : "i" \notin members[m]) =>
        \A c \in ReachableModels(members, root) : Occurrences(result.models, c) = 1

\* C3: no Model reachable only through a private submodule, or only through a
\* module whose name is not prefixed by the root's name, is in the returned list.
C3_OnlyQualifyingSubmodules ==
    pc = "discovered" =>
        \A j \in 1..Len(result.models) : result.models[j] \in ReachableModels(members, root)

\* C10: extract_pydantic_models returns on every module graph, cyclic ones
\* included: every recursive call is made on a module whose name strictly extends
\* the calling module's name by '<module_name>.', so the nesting of the calls is
\* bounded by the number of modules and none exceeds the recursion limit.
C10_Terminates ==
    pc = "discovered" =>
        /\ ~result.err
        /\ outcome = "ok"
        /\ result.depth <= Cardinality(Modules)
        /\ \A c \in result.calls :
              /\ Len(ObjName(c[2])) > Len(ObjName(c[1]))
              /\ StartsWith(ObjName(c[2]), ObjName(c[1]) \o <<".">>)

\* a graph in which a submodule has its parent and itself as members, traversed
C10_Witness ==
    /\ pc = "discovered"
    /\ root = "p"
    /\ "s" \in members["p"]
    /\ {"p", "s"} \subseteq members["s"]
    /\ <<"p", "s">> \in result.calls

----------------------------------------------------------------------------
(* Properties of main *)

\* C4: when the generator command is not found on the search path, main ends with
\* an error before any other step: nothing is imported, no Config is changed, no
\* temporary directory or schema file is created, the generator is not invoked and
\* the output path is as it was.
C4_MissingToolStopsFirst ==
    toolFound = "missing" =>
        /\ pc = "done"
        /\ outcome = "Exception"
        /\ ~imported
        /\ result = NoResult
        /\ hooked = {}
        /\ master = <<>>
        /\ dirsCreated = 0 /\ ~schemaDir /\ schemaFile = NoDocument
        /\ genCalls = 0
        /\ outputFile = fileBefore

\* the command is missing, the package has models and an output file exists
C4_Witness ==
    /\ toolFound = "missing"
    /\ pc = "done"
    /\ "A" \in members["p"]
    /\ fileBefore = LeftoverRaw

\* C5: whenever the generator exits with a non-zero status the run ends in a fatal
\* error: main never completes successfully after a failed invocation.
C5_GeneratorFailureIsFatal ==
    (pc = "done" /\ genStatus = 1) => outcome # "ok"

IsInterfaceOpen(line) ==
    LET b == Body(line) IN Len(b) >= 2 /\ b[1] = "export interface " /\ b[Len(b)] = " {"

\* C6: a run over a non-empty list of discovered Models that completes after a
\* successful generation leaves exactly one interface block for each discovered
\* Model and none named _Master_; the container has one field per discovered Model.
C6_OneBlockPerModel ==
    (pc = "done" /\ outcome = "ok" /\ genStatus = 0 /\ result.models # <<>>) =>
        LET discovered == { result.models[j] : j \in 1..Len(result.models) }
            lines == outputFile.lines
        IN  /\ Len(master) = Cardinality(discovered)
            /\ Cardinality({ j \in 1..Len(lines) : IsInterfaceOpen(lines[j]) })
                  = Cardinality(discovered)
            /\ \A j \in 1..Len(lines) : Body(lines[j]) # MasterOpen

====
